---- MODULE Spec2Model ----
(***************************************************************************)
(* Sudoku solver of Gaurav050Sharma/Sudoku: the validator is_valid, the    *)
(* recursive solve_sudoku_backtracking (run as an explicit call stack) and *)
(* the UI handlers that parse a grid, validate it and call the solver.     *)
(* The repository holds three copies of the validator/solver pair:         *)
(* app.py, app_gradio.py and validate.py + backtracking.py.                *)
(***************************************************************************)
EXTENDS Integers, Sequences, FiniteSets, TLC

VARIABLES
    entry,           \* the entry point (and so the module) that runs
    input,           \* the 9x9 cell texts handed to the entry point
    initial,         \* the integer grid the outermost solver call received
    board,           \* the grid the solver mutates in place
    stack,           \* activations of solve_sudoku_backtracking
    ret,             \* value returned by the last finished activation
    pc,              \* "input", "solving", "done", "probed", "validated"
    validation_msg,  \* result of validate_current_board
    status,          \* status text the handler reported
    shown,           \* grid texts the handler displays afterwards
    call,            \* 1 for the first press, 2 for the second
    prev,            \* outcome and grid of the first press, for the second
    wrote,           \* the current call assigned some board cell
    recursed,        \* the current call made a recursive call
    probe            \* arguments and result of a single is_valid call

vars == <<entry, input, initial, board, stack, ret, pc, validation_msg,
          status, shown, call, prev, wrote, recursed, probe>>

(***************************************************************************)
(* Grid geometry: range(9), 3 * (row // 3), range(1, 10).                  *)
(***************************************************************************)
N == 9

BoxSize == 3

Idx == 0 .. (N - 1)

Nums == 1 .. N

Cells == Idx \X Idx

(* Position of a cell in the row-major scan "for row ...: for col ...". *)
RowMajor(cell) == N * cell[1] + cell[2]

(* f itself, as a function TLC enumerates once instead of once per lookup:  *)
(* a Python list is built once, cell by cell.                              *)
Explicit(f) == f @@ <<>>

ZeroGrid == Explicit([r \in Idx |-> Explicit([c \in Idx |-> 0])])

(***************************************************************************)
(* Cell texts the UI layers exchange.  A text is "", a decimal string, a   *)
(* bold Unicode digit (written "bold1" .. "bold9" here) or another string  *)
(* ("x").                                                                  *)
(***************************************************************************)
StrOf == <<"1", "2", "3", "4", "5", "6", "7", "8", "9">>

BoldOf == <<"bold1", "bold2", "bold3", "bold4", "bold5", "bold6", "bold7",
            "bold8", "bold9">>

PlainDigits == {StrOf[n] : n \in Nums}

BoldDigits == {BoldOf[n] : n \in Nums}

Texts == {"", "0", "10", "x"} \cup PlainDigits \cup BoldDigits

(* Python str(n) for a cell value. *)
str(n) == IF n = 0 THEN "0" ELSE StrOf[n]

(* Python str.isdigit(): true of decimal strings and of the bold digits,   *)
(* which are Unicode decimal digits; false of "" and of "x".               *)
DigitStrings == {"0", "10"} \cup PlainDigits \cup BoldDigits

isdigit(s) == s \in DigitStrings

(* Python int(s) on a string for which isdigit holds. *)
int(s) ==
    IF s = "0" THEN 0
    ELSE IF s = "10" THEN 10
    ELSE IF s \in PlainDigits THEN CHOOSE n \in Nums : StrOf[n] = s
    ELSE CHOOSE n \in Nums : BoldOf[n] = s

to_bold_digit(n) == IF n = 0 THEN "" ELSE BoldOf[n]

normalize_digit(s) ==
    IF s \in BoldDigits THEN StrOf[CHOOSE n \in Nums : BoldOf[n] = s] ELSE s

(***************************************************************************)
(* The validators.  validate.py and app_gradio.py skip the target cell in  *)
(* all three loops; app.py compares every cell of the row, column and box. *)
(***************************************************************************)
(* is_valid with every "!=" guard dropped: the target cell counts too. *)
is_valid_noskip(b, row, col, num) ==
    /\ \A c \in Idx : ~(b[row][c] = num)
    /\ \A r \in Idx : ~(b[r][col] = num)
    /\ LET start_row == BoxSize * (row \div BoxSize)
           start_col == BoxSize * (col \div BoxSize)
       IN  \A r \in start_row .. (start_row + BoxSize - 1) :
             \A c \in start_col .. (start_col + BoxSize - 1) :
               ~(b[r][c] = num)

(* is_valid with the column loop left out. *)
is_valid_no_column(b, row, col, num) ==
    /\ \A c \in Idx : ~(c # col /\ b[row][c] = num)
    /\ LET start_row == BoxSize * (row \div BoxSize)
           start_col == BoxSize * (col \div BoxSize)
       IN  \A r \in start_row .. (start_row + BoxSize - 1) :
             \A c \in start_col .. (start_col + BoxSize - 1) :
               ~((r # row \/ c # col) /\ b[r][c] = num)

(* is_valid with the box origin taken from the row twice. *)
is_valid_wrong_box(b, row, col, num) ==
    /\ \A c \in Idx : ~(c # col /\ b[row][c] = num)
    /\ \A r \in Idx : ~(r # row /\ b[r][col] = num)
    /\ LET start_row == BoxSize * (row \div BoxSize)
           start_col == BoxSize * (row \div BoxSize)
       IN  \A r \in start_row .. (start_row + BoxSize - 1) :
             \A c \in start_col .. (start_col + BoxSize - 1) :
               ~((r # row \/ c # col) /\ b[r][c] = num)

is_valid(b, row, col, num) ==
    /\ \A c \in Idx : ~(c # col /\ b[row][c] = num)
    /\ \A r \in Idx : ~(r # row /\ b[r][col] = num)
    /\ LET start_row == BoxSize * (row \div BoxSize)
           start_col == BoxSize * (col \div BoxSize)
       IN  \A r \in start_row .. (start_row + BoxSize - 1) :
             \A c \in start_col .. (start_col + BoxSize - 1) :
               ~((r # row \/ c # col) /\ b[r][c] = num)

(* app_gradio.is_valid without the skip of the target cell. *)
is_valid_gradio_noskip(b, row, col, num) ==
    /\ \A c \in Idx : ~(b[row][c] = num)
    /\ \A r \in Idx : ~(b[r][col] = num)
    /\ LET start_row == BoxSize * (row \div BoxSize)
           start_col == BoxSize * (col \div BoxSize)
       IN  \A r \in start_row .. (start_row + BoxSize - 1) :
             \A c \in start_col .. (start_col + BoxSize - 1) :
               ~(b[r][c] = num)

is_valid_gradio(b, row, col, num) ==
    /\ \A c \in Idx : ~(c # col /\ b[row][c] = num)
    /\ \A r \in Idx : ~(r # row /\ b[r][col] = num)
    /\ LET start_row == BoxSize * (row \div BoxSize)
           start_col == BoxSize * (col \div BoxSize)
       IN  \A r \in start_row .. (start_row + BoxSize - 1) :
             \A c \in start_col .. (start_col + BoxSize - 1) :
               ~((r # row \/ c # col) /\ b[r][c] = num)

is_valid_app(b, row, col, num) ==
    /\ \A c \in Idx : ~(b[row][c] = num)
    /\ \A r \in Idx : ~(b[r][col] = num)
    /\ LET start_row == BoxSize * (row \div BoxSize)
           start_col == BoxSize * (col \div BoxSize)
       IN  \A r \in start_row .. (start_row + BoxSize - 1) :
             \A c \in start_col .. (start_col + BoxSize - 1) :
               ~(b[r][c] = num)

(***************************************************************************)
(* Entry points.  Each names the module whose is_valid / solve pair runs.  *)
(***************************************************************************)
AppEntries == {"app.solve_puzzle", "app.solve_preset"}

GradioEntries == {"gradio.solve_custom_grid", "gradio.solve_preset_grid"}

Entries == AppEntries \cup GradioEntries \cup {"backtracking"}

(* The is_valid that the solver of entry point e resolves to. *)
IsValidOf(e, b, row, col, num) ==
    IF e \in AppEntries THEN is_valid_app(b, row, col, num)
    ELSE IF e \in GradioEntries THEN is_valid_gradio(b, row, col, num)
    ELSE is_valid(b, row, col, num)

(***************************************************************************)
(* Grid conversions of the UI layers.                                      *)
(***************************************************************************)
(* app_gradio.parse_grid: normalize, then keep 1..9 and map the rest to 0. *)
parse_grid(g) ==
    Explicit([r \in Idx |-> Explicit([c \in Idx |->
        LET s == normalize_digit(g[r][c])
        IN  IF isdigit(s) /\ 1 <= int(s) /\ int(s) <= 9 THEN int(s)
            ELSE 0])])

(* app_gradio.format_grid; "original_grid=None" is has_orig = FALSE. *)
format_grid(g, has_orig, orig) ==
    Explicit([r \in Idx |-> Explicit([c \in Idx |->
        LET val == g[r][c]
        IN  IF val = 0 THEN ""
            ELSE IF has_orig /\ orig[r][c] = 0 THEN to_bold_digit(val)
            ELSE str(val)])])

(* app.render_styled_grid: the text input shows str(val) or "" and what    *)
(* the user leaves in it is read back into the board.                      *)
render_styled_grid(g) ==
    Explicit([r \in Idx |-> Explicit([c \in Idx |->
        LET user_val == g[r][c]
        IN  IF isdigit(user_val) /\ 1 <= int(user_val)
               /\ int(user_val) <= 9
            THEN int(user_val) ELSE 0])])

(* app.render_styled_grid's value= argument for a board. *)
render_value(b) ==
    Explicit([r \in Idx |-> Explicit([c \in Idx |->
        IF b[r][c] # 0 THEN str(b[r][c]) ELSE ""])])

(* others.parse_puzzle_string: one character per cell. *)
parse_puzzle_string(g) ==
    Explicit([r \in Idx |-> Explicit([c \in Idx |->
        IF g[r][c] \in PlainDigits THEN int(g[r][c]) ELSE 0])])

(* The integer grid entry point e hands to the solver for the texts g. *)
GridOf(e, g) ==
    IF e \in AppEntries THEN render_styled_grid(g)
    ELSE IF e \in GradioEntries THEN parse_grid(g)
    ELSE parse_puzzle_string(g)

(***************************************************************************)
(* app_gradio.validate_current_board.  The message is kept as a record:    *)
(* kind "valid" is the valid-state message, "violation" the one that       *)
(* carries the cross mark solve_custom_grid looks for.                     *)
(***************************************************************************)
FormatError(g, cell) ==
    LET s == g[cell[1]][cell[2]]
        norm == normalize_digit(s)
    IN  /\ s # ""
        /\ \/ ~isdigit(norm)
           \/ ~(1 <= int(norm) /\ int(norm) <= 9) /\ int(norm) # 0

RuleError(b, cell) ==
    /\ b[cell[1]][cell[2]] # 0
    /\ ~is_valid_gradio(b, cell[1], cell[2], b[cell[1]][cell[2]])

(* The scan read from the bottom right corner: last cell of S. *)
FirstCell_from_the_end(S) ==
    CHOOSE x \in S : \A y \in S : RowMajor(x) >= RowMajor(y)

(* First cell of S in row-major order. *)
FirstCell(S) == CHOOSE x \in S : \A y \in S : RowMajor(x) <= RowMajor(y)

validate_current_board(g) ==
    LET bad == {cell \in Cells : FormatError(g, cell)}
        clean_grid == parse_grid(g)
        viol == {cell \in Cells : RuleError(clean_grid, cell)}
    IN  IF bad # {}
        THEN LET cell == FirstCell(bad)
                 norm == normalize_digit(g[cell[1]][cell[2]])
             IN  [kind |-> IF ~isdigit(norm) THEN "input_error"
                           ELSE "range_error",
                  r |-> cell[1], c |-> cell[2], val |-> 0]
        ELSE IF viol # {}
        THEN LET cell == FirstCell(viol)
             IN  [kind |-> "violation", r |-> cell[1], c |-> cell[2],
                  val |-> clean_grid[cell[1]][cell[2]]]
        ELSE [kind |-> "valid", r |-> 0, c |-> 0, val |-> 0]

NoMsg == [kind |-> "none", r |-> 0, c |-> 0, val |-> 0]

(***************************************************************************)
(* solve_sudoku_backtracking as a call stack.  A frame is one activation:  *)
(* at = "scan" before the two scanning loops have found a cell, "try" in   *)
(* the loop "for num in range(1, 10)" about to probe its k-th digit at     *)
(* (row, col), "wait" while the recursive call made for that digit is      *)
(* running.  ret holds the value the last finished activation returned.    *)
(***************************************************************************)
(* range(1, 10) read from the last digit down. *)
NumRange_descending == Explicit([k \in 1 .. N |-> N + 1 - k])

(* range(1, 10): the digits in the order the loop tries them. *)
NumRange == Explicit([k \in 1 .. N |-> k])

NewFrame == [row |-> 0, col |-> 0, k |-> 1, at |-> "scan"]

Top == stack[Len(stack)]

(* The loop variable num of the top activation. *)
TopNum == NumRange[Top.k]

SetTop(f) == [stack EXCEPT ![Len(stack)] = f]

Pop == SubSeq(stack, 1, Len(stack) - 1)

EmptyCells(b) == {cell \in Cells : b[cell[1]][cell[2]] = 0}

Solving == pc = "solving" /\ stack # <<>>

(* ScanFull without the final "return True": the call yields a false value. *)
ScanFull_no_return ==
    /\ Solving
    /\ Top.at = "scan"
    /\ EmptyCells(board) = {}
    /\ stack' = Pop
    /\ ret' = "False"
    /\ UNCHANGED <<entry, input, initial, board, pc, validation_msg, status,
                   shown, call, prev, wrote, recursed, probe>>

(* Both scanning loops ran to the end: "return True" of the last line. *)
ScanFull ==
    /\ Solving
    /\ Top.at = "scan"
    /\ EmptyCells(board) = {}
    /\ stack' = Pop
    /\ ret' = "True"
    /\ UNCHANGED <<entry, input, initial, board, pc, validation_msg, status,
                   shown, call, prev, wrote, recursed, probe>>

(* The scan without the test "if board[row][col] == 0": it stops at the    *)
(* first cell it reads.                                                    *)
ScanFound_any_cell ==
    /\ Solving
    /\ Top.at = "scan"
    /\ LET cell == FirstCell(Cells)
       IN  stack' = SetTop([row |-> cell[1], col |-> cell[2], k |-> 1,
                            at |-> "try"])
    /\ UNCHANGED <<entry, input, initial, board, ret, pc, validation_msg,
                   status, shown, call, prev, wrote, recursed, probe>>

(* The scan stops at the first cell with board[row][col] == 0. *)
ScanFound ==
    /\ Solving
    /\ Top.at = "scan"
    /\ EmptyCells(board) # {}
    /\ LET cell == FirstCell(EmptyCells(board))
       IN  stack' = SetTop([row |-> cell[1], col |-> cell[2], k |-> 1,
                            at |-> "try"])
    /\ UNCHANGED <<entry, input, initial, board, ret, pc, validation_msg,
                   status, shown, call, prev, wrote, recursed, probe>>

(* Place without the test "if is_valid(board, row, col, num)". *)
Place_unchecked ==
    /\ Solving
    /\ Top.at = "try"
    /\ Top.k \in DOMAIN NumRange
    /\ board' = [board EXCEPT ![Top.row][Top.col] = TopNum]
    /\ stack' = Append(SetTop([Top EXCEPT !.at = "wait"]), NewFrame)
    /\ ret' = "none"
    /\ wrote' = TRUE
    /\ recursed' = TRUE
    /\ UNCHANGED <<entry, input, initial, pc, validation_msg, status, shown,
                   call, prev, probe>>

(* is_valid accepts num: write it and make the recursive call. *)
Place ==
    /\ Solving
    /\ Top.at = "try"
    /\ Top.k \in DOMAIN NumRange
    /\ IsValidOf(entry, board, Top.row, Top.col, TopNum)
    /\ board' = [board EXCEPT ![Top.row][Top.col] = TopNum]
    /\ stack' = Append(SetTop([Top EXCEPT !.at = "wait"]), NewFrame)
    /\ ret' = "none"
    /\ wrote' = TRUE
    /\ recursed' = TRUE
    /\ UNCHANGED <<entry, input, initial, pc, validation_msg, status, shown,
                   call, prev, probe>>

(* is_valid rejects num: next iteration of the loop over num. *)
Reject ==
    /\ Solving
    /\ Top.at = "try"
    /\ Top.k \in DOMAIN NumRange
    /\ ~IsValidOf(entry, board, Top.row, Top.col, TopNum)
    /\ stack' = SetTop([Top EXCEPT !.k = @ + 1])
    /\ UNCHANGED <<entry, input, initial, board, ret, pc, validation_msg,
                   status, shown, call, prev, wrote, recursed, probe>>

(* The recursive call returned True: "return True". *)
Propagate ==
    /\ Solving
    /\ Top.at = "wait"
    /\ ret = "True"
    /\ stack' = Pop
    /\ UNCHANGED <<entry, input, initial, board, ret, pc, validation_msg,
                   status, shown, call, prev, wrote, recursed, probe>>

(* Backtrack without the reset "board[row][col] = 0". *)
Backtrack_no_reset ==
    /\ Solving
    /\ Top.at = "wait"
    /\ ret = "False"
    /\ stack' = SetTop([Top EXCEPT !.k = @ + 1, !.at = "try"])
    /\ ret' = "none"
    /\ UNCHANGED <<entry, input, initial, board, pc, validation_msg, status,
                   shown, call, prev, wrote, recursed, probe>>

(* The recursive call returned False: "board[row][col] = 0", next num. *)
Backtrack ==
    /\ Solving
    /\ Top.at = "wait"
    /\ ret = "False"
    /\ board' = [board EXCEPT ![Top.row][Top.col] = 0]
    /\ stack' = SetTop([Top EXCEPT !.k = @ + 1, !.at = "try"])
    /\ ret' = "none"
    /\ UNCHANGED <<entry, input, initial, pc, validation_msg, status, shown,
                   call, prev, wrote, recursed, probe>>

(* Exhausted with the last line missing: the call falls off its end and   *)
(* yields neither True nor False.                                          *)
Exhausted_no_value ==
    /\ Solving
    /\ Top.at = "try"
    /\ Top.k \notin DOMAIN NumRange
    /\ stack' = Pop
    /\ ret' = "none"
    /\ UNCHANGED <<entry, input, initial, board, pc, validation_msg, status,
                   shown, call, prev, wrote, recursed, probe>>

(* The loop over num is exhausted: "return False". *)
Exhausted ==
    /\ Solving
    /\ Top.at = "try"
    /\ Top.k \notin DOMAIN NumRange
    /\ stack' = Pop
    /\ ret' = "False"
    /\ UNCHANGED <<entry, input, initial, board, pc, validation_msg, status,
                   shown, call, prev, wrote, recursed, probe>>

(***************************************************************************)
(* solve_sudoku_backtracking of entry point e as a function of the grid it *)
(* is called on: the value returned and the grid left behind.  try_nums is *)
(* the loop "for num in range(1, 10)" from its k-th digit on at the cell   *)
(* the scan stopped at.                                                    *)
(***************************************************************************)
RECURSIVE solve_sudoku_backtracking(_, _)
RECURSIVE try_nums(_, _, _, _)
solve_sudoku_backtracking(e, b) ==
    IF EmptyCells(b) = {} THEN [ret |-> "True", board |-> b]
    ELSE try_nums(e, b, FirstCell(EmptyCells(b)), 1)

try_nums(e, b, cell, k) ==
    IF k \notin DOMAIN NumRange THEN [ret |-> "False", board |-> b]
    ELSE IF IsValidOf(e, b, cell[1], cell[2], NumRange[k])
    THEN LET sub == solve_sudoku_backtracking(
                        e, [b EXCEPT ![cell[1]][cell[2]] = NumRange[k]])
         IN  IF sub.ret = "True" THEN sub
             ELSE try_nums(e, [sub.board EXCEPT ![cell[1]][cell[2]] = 0],
                           cell, k + 1)
    ELSE try_nums(e, b, cell, k + 1)

(***************************************************************************)
(* Input grids.  Base is a solved grid; an input blanks up to MaxBlanks of *)
(* the cells BlankCells and overtypes the two cells EditCell1 / EditCell2  *)
(* with one of the listed texts.  The texts cover duplicates of a row,     *)
(* column or box peer, grids with no completion, several completions,      *)
(* non-numeric and out-of-range entries and bold digits.                   *)
(***************************************************************************)
MaxBlanks == 4

BaseRows == << <<2, 1, 3, 4, 5, 6, 7, 8, 9>>,
               <<4, 5, 6, 7, 8, 9, 1, 2, 3>>,
               <<7, 8, 9, 1, 2, 3, 4, 5, 6>>,
               <<1, 2, 4, 3, 6, 5, 8, 9, 7>>,
               <<3, 6, 5, 8, 9, 7, 2, 1, 4>>,
               <<8, 9, 7, 2, 1, 4, 3, 6, 5>>,
               <<5, 3, 1, 6, 4, 2, 9, 7, 8>>,
               <<6, 4, 2, 9, 7, 8, 5, 3, 1>>,
               <<9, 7, 8, 5, 3, 1, 6, 4, 2>> >>

Base ==
    Explicit([r \in Idx |-> Explicit([c \in Idx |-> BaseRows[r + 1][c + 1]])])

BlankCells == {<<0, 0>>, <<0, 1>>, <<3, 0>>, <<3, 1>>, <<6, 2>>, <<1, 2>>}

BlankSets == {S \in SUBSET BlankCells : Cardinality(S) <= MaxBlanks}

EditCell1 == <<0, 2>>

EditTexts1 == {"3", "1", "", "0", "10", "x", "bold1"}

EditCell2 == <<3, 2>>

EditTexts2 == {"4", "1"}

InputGrid(S, t1, t2) ==
    Explicit([r \in Idx |-> Explicit([c \in Idx |->
        IF <<r, c>> = EditCell1 THEN t1
        ELSE IF <<r, c>> = EditCell2 THEN t2
        ELSE IF <<r, c>> \in S THEN ""
        ELSE str(Base[r][c])])])

InputGrids ==
    {InputGrid(S, t1, t2) : S \in BlankSets, t1 \in EditTexts1,
                            t2 \in EditTexts2}

NoProbe == [row |-> 0, col |-> 0, num |-> 0, result |-> FALSE]

NoTexts == Explicit([r \in Idx |-> Explicit([c \in Idx |-> ""])])

Init ==
    /\ entry \in Entries
    /\ input \in InputGrids
    /\ initial = ZeroGrid
    /\ board = ZeroGrid
    /\ stack = <<>>
    /\ ret = "none"
    /\ pc = "input"
    /\ validation_msg = NoMsg
    /\ status = ""
    /\ shown = NoTexts
    /\ call = 1
    /\ prev = [ret |-> "none", board |-> ZeroGrid]
    /\ wrote = FALSE
    /\ recursed = FALSE
    /\ probe = NoProbe

(***************************************************************************)
(* Handlers.                                                               *)
(***************************************************************************)
(* The outermost call solve_sudoku_backtracking(g). *)
StartSolve(g) ==
    /\ initial' = g
    /\ board' = g
    /\ stack' = <<NewFrame>>
    /\ ret' = "none"
    /\ pc' = "solving"

Returned == pc = "solving" /\ stack = <<>>

(* app.py "Solve Puzzle" / "Solve Preset": copy the session board, solve. *)
AppSolve ==
    /\ pc = "input"
    /\ entry \in AppEntries
    /\ StartSolve(render_styled_grid(input))
    /\ UNCHANGED <<entry, input, validation_msg, status, shown, call, prev,
                   wrote, recursed, probe>>

(* app.py: on True the solved copy becomes the session board and "Solved!" *)
(* is reported; on False the session board stays and an error is shown.    *)
AppReport ==
    /\ Returned
    /\ entry \in AppEntries
    /\ IF ret = "True"
       THEN status' = "Solved" /\ shown' = render_value(board)
       ELSE status' = "No solution" /\ shown' = render_value(initial)
    /\ pc' = "done"
    /\ UNCHANGED <<entry, input, initial, board, stack, ret, validation_msg,
                   call, prev, wrote, recursed, probe>>

(* app_gradio.solve_custom_grid (solve_preset_grid delegates to it), the   *)
(* branch taken when the validation message carries the cross mark.        *)
GradioRefuse ==
    /\ pc = "input"
    /\ entry \in GradioEntries
    /\ validate_current_board(input).kind = "violation"
    /\ validation_msg' = validate_current_board(input)
    /\ status' = "Cannot Solve"
    /\ shown' = format_grid(parse_grid(input), FALSE, ZeroGrid)
    /\ initial' = parse_grid(input)
    /\ board' = parse_grid(input)
    /\ pc' = "done"
    /\ UNCHANGED <<entry, input, stack, ret, call, prev, wrote, recursed,
                   probe>>

(* app_gradio.solve_custom_grid, the branch that goes on to the solver. *)
GradioSolve ==
    /\ pc = "input"
    /\ entry \in GradioEntries
    /\ validate_current_board(input).kind # "violation"
    /\ validation_msg' = validate_current_board(input)
    /\ StartSolve(parse_grid(input))
    /\ UNCHANGED <<entry, input, status, shown, call, prev, wrote, recursed,
                   probe>>

GradioReport ==
    /\ Returned
    /\ entry \in GradioEntries
    /\ IF ret = "True"
       THEN status' = "Solved" /\ shown' = format_grid(board, TRUE, initial)
       ELSE status' = "No solution"
            /\ shown' = format_grid(board, FALSE, ZeroGrid)
    /\ pc' = "done"
    /\ UNCHANGED <<entry, input, initial, board, stack, ret, validation_msg,
                   call, prev, wrote, recursed, probe>>

(* backtracking.py called on a grid read by others.parse_puzzle_string and *)
(* shown by others.format_grid; the library reports no status itself.      *)
DirectSolve ==
    /\ pc = "input"
    /\ entry = "backtracking"
    /\ StartSolve(parse_puzzle_string(input))
    /\ UNCHANGED <<entry, input, validation_msg, status, shown, call, prev,
                   wrote, recursed, probe>>

DirectReport ==
    /\ Returned
    /\ entry = "backtracking"
    /\ shown' = format_grid(board, FALSE, ZeroGrid)
    /\ pc' = "done"
    /\ UNCHANGED <<entry, input, initial, board, stack, ret, validation_msg,
                   status, call, prev, wrote, recursed, probe>>

(* The displayed grid is submitted to the same entry point once more. *)
SolveAgain ==
    /\ pc = "done"
    /\ call = 1
    /\ input' = shown
    /\ call' = 2
    /\ pc' = "input"
    /\ ret' = "none"
    /\ validation_msg' = NoMsg
    /\ status' = ""
    /\ wrote' = FALSE
    /\ recursed' = FALSE
    /\ prev' = [ret |-> ret, board |-> board]
    /\ UNCHANGED <<entry, initial, board, stack, shown, probe>>

Next ==
    \/ AppSolve
    \/ AppReport
    \/ GradioRefuse
    \/ GradioSolve
    \/ GradioReport
    \/ DirectSolve
    \/ DirectReport
    \/ SolveAgain
    \/ ScanFull
    \/ ScanFound
    \/ Place
    \/ Reject
    \/ Propagate
    \/ Backtrack
    \/ Exhausted

Spec == Init /\ [][Next]_vars

(* One statement of a running solver call.  The interpreter runs a started *)
(* call statement by statement with nothing to preempt it for good, so a   *)
(* call that can take a step eventually takes one.                         *)
SolverStep ==
    \/ ScanFull
    \/ ScanFound
    \/ Place
    \/ Reject
    \/ Propagate
    \/ Backtrack
    \/ Exhausted

SpecLive == Spec /\ WF_vars(SolverStep)

(***************************************************************************)
(* The validator on its own: single is_valid calls and                     *)
(* validate_current_board as the grid's change handler.                    *)
(***************************************************************************)
(* (0,0) = 5 and (0,1) = 5, the rest empty. *)
ExampleGrid ==
    Explicit([r \in Idx |-> Explicit([c \in Idx |->
        IF r = 0 /\ c \in {0, 1} THEN "5" ELSE ""])])

ValidatorGrids ==
    {ExampleGrid} \cup
    {InputGrid(S, t1, t2) : S \in {B \in BlankSets : Cardinality(B) <= 1},
                            t1 \in EditTexts1, t2 \in EditTexts2}

ValidatorEntries == {"gradio.solve_custom_grid", "backtracking"}

InitValidator ==
    /\ entry \in ValidatorEntries
    /\ input \in ValidatorGrids
    /\ initial = ZeroGrid
    /\ board = ZeroGrid
    /\ stack = <<>>
    /\ ret = "none"
    /\ pc = "input"
    /\ validation_msg = NoMsg
    /\ status = ""
    /\ shown = NoTexts
    /\ call = 1
    /\ prev = [ret |-> "none", board |-> ZeroGrid]
    /\ wrote = FALSE
    /\ recursed = FALSE
    /\ probe = NoProbe

(* One call is_valid(board, row, col, num) on the parsed grid. *)
Probe ==
    /\ pc = "input"
    /\ board' = GridOf(entry, input)
    /\ \E row \in Idx, col \in Idx, num \in Nums :
         probe' = [row |-> row, col |-> col, num |-> num,
                   result |-> IsValidOf(entry, board', row, col, num)]
    /\ pc' = "probed"
    /\ UNCHANGED <<entry, input, initial, stack, ret, validation_msg, status,
                   shown, call, prev, wrote, recursed>>

(* custom_grid.change / preset_grid.change: validate_current_board. *)
ValidateBoard ==
    /\ pc = "input"
    /\ entry \in GradioEntries
    /\ board' = parse_grid(input)
    /\ validation_msg' = validate_current_board(input)
    /\ pc' = "validated"
    /\ UNCHANGED <<entry, input, initial, stack, ret, status, shown, call,
                   prev, wrote, recursed, probe>>

NextValidator ==
    \/ Probe
    \/ ValidateBoard

SpecValidator == InitValidator /\ [][NextValidator]_vars

(***************************************************************************)
(* The solver on the all-zero grid.                                        *)
(***************************************************************************)
InitEmpty ==
    /\ entry \in Entries
    /\ input = NoTexts
    /\ initial = ZeroGrid
    /\ board = ZeroGrid
    /\ stack = <<>>
    /\ ret = "none"
    /\ pc = "input"
    /\ validation_msg = NoMsg
    /\ status = ""
    /\ shown = NoTexts
    /\ call = 1
    /\ prev = [ret |-> "none", board |-> ZeroGrid]
    /\ wrote = FALSE
    /\ recursed = FALSE
    /\ probe = NoProbe

NextEmpty ==
    \/ AppSolve
    \/ AppReport
    \/ GradioSolve
    \/ GradioReport
    \/ DirectSolve
    \/ DirectReport
    \/ ScanFull
    \/ ScanFound
    \/ Place
    \/ Reject
    \/ Propagate
    \/ Backtrack
    \/ Exhausted

SpecEmpty == InitEmpty /\ [][NextEmpty]_vars

(***************************************************************************)
(* Sudoku rules, stated on sets of cells and independently of is_valid.    *)
(***************************************************************************)
Val(g, cell) == g[cell[1]][cell[2]]

SameRow(a, b) == a[1] = b[1]

SameCol(a, b) == a[2] = b[2]

(* b lies in the 3x3 box whose origin is 3 * (row // 3), 3 * (col // 3)    *)
(* for a = (row, col).                                                     *)
InBoxOf(a, b) ==
    LET r0 == 3 * (a[1] \div 3)
        c0 == 3 * (a[2] \div 3)
    IN  b[1] \in r0 .. (r0 + 2) /\ b[2] \in c0 .. (c0 + 2)

(* The nine rows, nine columns and nine boxes, each as a set of cells. *)
Units ==
    {{<<r, c>> : c \in Idx} : r \in Idx} \cup
    {{<<r, c>> : r \in Idx} : c \in Idx} \cup
    {{<<3 * i + r, 3 * j + c>> : r \in 0 .. 2, c \in 0 .. 2} :
        i \in 0 .. 2, j \in 0 .. 2}

(* No two distinct cells of a row, column or box hold the same digit. *)
ConflictFree(g) ==
    \A U \in Units :
        \A a \in U, b \in U :
            (a # b /\ Val(g, a) # 0) => Val(g, a) # Val(g, b)

(* Every row, column and box holds each digit 1..9 (nine cells, nine       *)
(* digits: each exactly once, and no 0).                                   *)
Complete(g) == \A U \in Units : {Val(g, cell) : cell \in U} = Nums

(* The outermost solver call has returned. *)
Finished == pc \in {"solving", "done"} /\ stack = <<>> /\ ret # "none"

(* Digits no given peer of the cell holds. *)
Cand(g, cell) ==
    {d \in Nums :
        \A U \in Units : cell \in U => \A b \in U : b = cell \/ Val(g, b) # d}

(* All ways to give each cell of E one of its candidate digits. *)
RECURSIVE Assignments(_, _)
Assignments(g, E) ==
    IF E = {} THEN {<<>>}
    ELSE LET cell == FirstCell(E)
         IN  {(cell :> d) @@ f : d \in Cand(g, cell),
                                 f \in Assignments(g, E \ {cell})}

Fill(g, f) ==
    Explicit([r \in Idx |-> Explicit([c \in Idx |->
        IF <<r, c>> \in DOMAIN f THEN f[<<r, c>>] ELSE g[r][c]])])

(* The completions of g: fillings of its empty cells only that satisfy     *)
(* row, column and box uniqueness.                                         *)
Completions(g) ==
    {h \in {Fill(g, f) : f \in Assignments(g, EmptyCells(g))} : Complete(h)}

(* a precedes b when the cells of E are read in row-major order. *)
LexLess(a, b, E) ==
    \E cell \in E :
        /\ Val(a, cell) < Val(b, cell)
        /\ \A e \in E : RowMajor(e) < RowMajor(cell) => Val(a, e) = Val(b, e)

(***************************************************************************)
(* Properties.                                                             *)
(***************************************************************************)

(* C1: a probe is_valid(grid, row, col, digit) returns False exactly when  *)
(* some cell other than (row, col) in the same row, the same column or the *)
(* same 3x3 box holds digit, and the value stored at (row, col) does not   *)
(* change the result.  Checked under SpecValidator.                        *)
C1_IsValidIffNoPeerHolds ==
    pc = "probed" =>
        LET target == <<probe.row, probe.col>>
        IN  /\ probe.result = FALSE <=>
                 \E b \in Cells :
                     /\ b # target
                     /\ SameRow(target, b) \/ SameCol(target, b)
                        \/ InBoxOf(target, b)
                     /\ Val(board, b) = probe.num
            /\ \A v \in 0 .. 9 :
                 IsValidOf(entry,
                           [board EXCEPT ![probe.row][probe.col] = v],
                           probe.row, probe.col, probe.num) = probe.result

(* A probe of the digit the target cell already holds, refused because a   *)
(* peer holds it too.                                                      *)
C1_Witness ==
    /\ pc = "probed"
    /\ ~probe.result
    /\ board[probe.row][probe.col] = probe.num

(* C2: on a conflict-free input a True return leaves a grid with no 0 in   *)
(* which every row, column and box holds each digit exactly once.          *)
C2_SuccessIsComplete ==
    (Finished /\ ret = "True" /\ ConflictFree(initial)) =>
        (EmptyCells(board) = {} /\ Complete(board))

(* A search that placed digits and returned True on a conflict-free input. *)
C2_Witness ==
    /\ Finished
    /\ ret = "True"
    /\ wrote
    /\ ConflictFree(initial)
    /\ Cardinality(EmptyCells(initial)) >= 3

(* C3: on a conflict-free input the solver returns True exactly when the   *)
(* input has a completion, and False exactly when it has none.             *)
C3_TrueIffCompletionExists ==
    (Finished /\ ConflictFree(initial)) =>
        (ret = "True" <=> Completions(initial) # {})

(* A conflict-free input without completion, given up after a search. *)
C3_Witness ==
    /\ Finished
    /\ ret = "False"
    /\ wrote
    /\ ConflictFree(initial)
    /\ Completions(initial) = {}

(* C4: after a False return the grid equals the grid before the call. *)
C4_FalseRestoresGrid ==
    (Finished /\ ret = "False") => board = initial

(* A False return after trial digits had been written. *)
C4_Witness ==
    /\ Finished
    /\ ret = "False"
    /\ wrote
    /\ board = initial
    /\ EmptyCells(initial) # {}

(* C5: on a conflict-free input with completions the grid left on a True   *)
(* return is the completion that is smallest when the originally empty     *)
(* cells are read in row-major order.                                      *)
C5_FirstSolutionIsLexMin ==
    (Finished /\ ret = "True" /\ ConflictFree(initial)) =>
        LET all == Completions(initial)
        IN  /\ board \in all
            /\ \A h \in all :
                 h = board \/ LexLess(board, h, EmptyCells(initial))

(* A solved input that has more than one completion. *)
C5_Witness ==
    /\ Finished
    /\ ret = "True"
    /\ ConflictFree(initial)
    /\ Cardinality(Completions(initial)) >= 2

(* C6: on a full conflict-free grid the solver returns True without a      *)
(* write or a recursive call, and a second solve of the result of a        *)
(* successful solve returns True and leaves that grid unchanged.           *)
C6_SolvedGridIsNoOp ==
    /\ (Finished /\ EmptyCells(initial) = {} /\ ConflictFree(initial)) =>
           (ret = "True" /\ ~wrote /\ ~recursed /\ board = initial)
    /\ (Finished /\ call = 2 /\ prev.ret = "True") =>
           (ret = "True" /\ ~wrote /\ ~recursed /\ board = prev.board)

(* The second solve of a grid the first solve had to fill in. *)
C6_Witness ==
    /\ Finished
    /\ call = 2
    /\ prev.ret = "True"
    /\ ret = "True"
    /\ board = prev.board
    /\ ConflictFree(board)
    /\ \E cell \in Cells : Val(shown, cell) \in BoldDigits

(* C7: on the all-zero grid the solver returns True and every row, column  *)
(* and box of the result is a permutation of 1..9.  Checked under          *)
(* SpecEmpty.                                                              *)
C7_EmptyGridSolved ==
    (Finished /\ initial = ZeroGrid) =>
        /\ ret = "True"
        /\ \A U \in Units :
             /\ \A d \in Nums : \E cell \in U : Val(board, cell) = d
             /\ \A a \in U, b \in U : a # b => Val(board, a) # Val(board, b)

(* The all-zero grid, solved. *)
C7_Witness ==
    /\ Finished
    /\ initial = ZeroGrid
    /\ ret = "True"
    /\ EmptyCells(board) = {}

(* C8: a grid the solver completed validates cell by cell with the         *)
(* validator of the same module: is_valid(G', r, c, G'[r][c]) is True for  *)
(* every cell.  Stated for conflict-free inputs, the solver's precondition, *)
(* so that a violation is one of the claim on a grid every caller may      *)
(* pass.                                                                   *)
C8_CompletedGridSelfValidates ==
    (Finished /\ ret = "True" /\ ConflictFree(initial)) =>
        \A cell \in Cells :
            IsValidOf(entry, board, cell[1], cell[2], Val(board, cell))

(* C9: a UI entry point calls the solver only on a grid without a          *)
(* duplicate, and reports "Solved" for no grid with a duplicate.           *)
C9_SolverOnlyAfterLegalityCheck ==
    (entry # "backtracking" /\ (pc = "solving" \/ status = "Solved")) =>
        ConflictFree(initial)

(* C10: on texts that are digits 1..9 or empty, validate_current_board     *)
(* returns the valid-state message exactly when no two distinct cells of a *)
(* row, column or box hold the same digit, and a violation message         *)
(* otherwise.  Checked under SpecValidator.                                *)
C10_ValidateIffConflictFree ==
    (/\ pc = "validated"
     /\ \A cell \in Cells :
          Val(input, cell) \in ({""} \cup PlainDigits \cup BoldDigits)) =>
        /\ validation_msg.kind \in {"valid", "violation"}
        /\ validation_msg.kind = "valid" <=> ConflictFree(board)

(* (0,0) = 5 and (0,1) = 5 with the rest empty: 5 at row 0, column 0 is    *)
(* reported.                                                               *)
C10_Witness ==
    /\ pc = "validated"
    /\ input = ExampleGrid
    /\ validation_msg = [kind |-> "violation", r |-> 0, c |-> 0, val |-> 5]

(* C11: every started solver call, on grids with a duplicate in a row,     *)
(* column or box as on any other, eventually returns, and the value it     *)
(* returns is True or False and nothing else.  Checked under SpecLive.     *)
C11_SolverReturnsTrueOrFalse ==
    /\ [](Returned => ret \in {"True", "False"})
    /\ (pc = "solving") ~> Returned

(* A call on a grid with a duplicate that searched, backtracked and came   *)
(* back with False.                                                        *)
C11_Witness ==
    /\ Returned
    /\ ret = "False"
    /\ wrote
    /\ ~ConflictFree(initial)

(* Nested recursive calls below the outermost call. *)
Depth == Len(stack) - 1

(* Originally empty cells that hold a trial digit. *)
TrialCells == {cell \in Cells : Val(initial, cell) = 0 /\ Val(board, cell) # 0}

Placed == Cardinality(TrialCells)

(* C12 as stated: at every point of a call the nesting depth equals the    *)
(* number of trial digits placed.                                          *)
C12_DepthEqualsPlaced == Solving => Depth = Placed

(* C12, amended: the depth never exceeds the number of trial digits, which *)
(* never exceeds the number of originally empty cells; the two are equal   *)
(* while the innermost call scans or probes; a call whose callee returned  *)
(* False still holds that callee's trial digit (one more than the depth),  *)
(* and once a callee returned True every originally empty cell holds a     *)
(* digit while the depth unwinds to 0.                                     *)
C12_DepthAtMostPlaced ==
    Solving =>
        /\ Depth <= Placed
        /\ Placed <= Cardinality(EmptyCells(initial))
        /\ Top.at \in {"scan", "try"} => Depth = Placed
        /\ (Top.at = "wait" /\ ret = "False") => Placed = Depth + 1
        /\ (Top.at = "wait" /\ ret = "True") =>
               Placed = Cardinality(EmptyCells(initial))

(* Three calls deep with three trial digits placed, probing a fourth cell. *)
C12_Witness ==
    /\ Solving
    /\ Top.at = "try"
    /\ Depth = 3
    /\ Placed = 3
    /\ Cardinality(EmptyCells(initial)) >= 4

(* The cell of the innermost call. *)
TopCell == <<Top.row, Top.col>>

(* The trial digits fill the originally empty cells from the first one in  *)
(* row-major order on, without a gap.                                      *)
TrialCellsArePrefix ==
    \A a \in TrialCells :
        \A e \in EmptyCells(initial) :
            RowMajor(e) < RowMajor(a) => e \in TrialCells

(* C13: at every point of the search the originally empty cells that hold  *)
(* a trial digit are the first k of them in row-major order; a digit is    *)
(* only ever written into a cell that holds 0, so a failed digit has been  *)
(* reset before the next one is written; the step after a failed recursive *)
(* call resets the cell; and a frame that returns False leaves its cell    *)
(* at 0.                                                                   *)
C13_TrialCellsPrefixAndReset ==
    /\ [](pc \in {"solving", "done"} => TrialCellsArePrefix)
    /\ [][Solving =>
            /\ \A cell \in Cells :
                 (Val(board', cell) # Val(board, cell) /\ Val(board', cell) # 0)
                     => (Val(board, cell) = 0 /\ cell = TopCell)
            /\ (Top.at = "wait" /\ ret = "False") => Val(board', TopCell) = 0
            /\ (Len(stack') < Len(stack) /\ ret' = "False" /\ Top.at = "try")
                   => (Val(board, TopCell) = 0 /\ board' = board)]_vars

(* A call two levels deep whose previous digit was accepted, failed in the *)
(* recursion and has been reset: the cell holds 0 again and the next digit *)
(* is about to be probed.                                                  *)
C13_Witness ==
    /\ Solving
    /\ Top.at = "try"
    /\ Top.k \in 2 .. N
    /\ IsValidOf(entry, board, Top.row, Top.col, NumRange[Top.k - 1])
    /\ Val(board, TopCell) = 0
    /\ Depth >= 2
    /\ TrialCellsArePrefix

(* One entry point per solver copy. *)
Copies == {"app.solve_puzzle", "gradio.solve_custom_grid", "backtracking"}

(* C14: the three solver copies agree.  On the grid a finished call was    *)
(* started on, each copy run on its own returns the value the call         *)
(* returned and leaves the grid the call left; and whenever a call probes  *)
(* a digit, the probed cell holds 0 and the three validators give the same *)
(* answer on the current grid.                                             *)
C14_CopiesAgree ==
    /\ Finished =>
           \A e \in Copies :
               solve_sudoku_backtracking(e, initial)
                   = [ret |-> ret, board |-> board]
    /\ (Solving /\ Top.at = "try" /\ Top.k \in DOMAIN NumRange) =>
           /\ Val(board, TopCell) = 0
           /\ \A e \in Copies :
                  IsValidOf(e, board, Top.row, Top.col, TopNum)
                      = IsValidOf(entry, board, Top.row, Top.col, TopNum)

(* A finished search on a grid with a duplicate, where app.py's validator  *)
(* and the other two differ on cells that are filled: the copies still     *)
(* agree, on a grid the search had to backtrack on.                        *)
C14_Witness ==
    /\ Finished
    /\ wrote
    /\ ~ConflictFree(initial)
    /\ Cardinality(EmptyCells(initial)) >= 3
    /\ \E cell \in Cells, num \in Nums :
           is_valid_app(initial, cell[1], cell[2], num)
               # is_valid(initial, cell[1], cell[2], num)
    /\ \A e \in Copies :
           solve_sudoku_backtracking(e, initial)
               = [ret |-> ret, board |-> board]

(* C15: on a conflict-free input every grid reached during the call is    *)
(* conflict-free: the grid the call starts on and the grid after each      *)
(* step that changes it (a call returns the grid of its last such step);   *)
(* and a digit is written only if is_valid accepted it on the grid before  *)
(* the write.                                                              *)
C15_ConflictFreePreserved ==
    /\ [][(/\ pc' = "solving"
           /\ pc = "input" \/ board' # board
           /\ ConflictFree(initial')) => ConflictFree(board')]_vars
    /\ [][(Solving /\ board' # board /\ Val(board', TopCell) # 0) =>
              IsValidOf(entry, board, Top.row, Top.col,
                        Val(board', TopCell))]_vars

(* A conflict-free input, three trial digits deep, at the moment a         *)
(* recursive call has failed and its trial digit is still in the grid.     *)
C15_Witness ==
    /\ Solving
    /\ Top.at = "wait"
    /\ ret = "False"
    /\ Depth >= 2
    /\ Placed >= 3
    /\ ConflictFree(initial)
    /\ ConflictFree(board)

(* The cells that are filled in the grid the call was started on. *)
GivenCells == Cells \ EmptyCells(initial)

(* C16: the solver never writes to a cell that is non-zero in the input    *)
(* grid.  While a call runs and after it returned, with True or with       *)
(* False, every originally filled cell holds its original digit; no step   *)
(* of the call changes such a cell; a True return leaves an extension of   *)
(* the input grid.                                                         *)
C16_GivenCellsUntouched ==
    /\ [](pc \in {"solving", "done"} =>
            \A cell \in GivenCells : Val(board, cell) = Val(initial, cell))
    /\ [][Solving =>
            \A cell \in GivenCells : Val(board', cell) = Val(board, cell)]_vars
    /\ []((Finished /\ ret = "True") =>
            \A cell \in Cells :
                Val(initial, cell) \in {0, Val(board, cell)})

(* A True return after a search that filled three or more empty cells of  *)
(* a grid with given digits, every given digit still in place.             *)
C16_Witness ==
    /\ Finished
    /\ ret = "True"
    /\ wrote
    /\ Cardinality(EmptyCells(initial)) >= 3
    /\ GivenCells # {}
    /\ \A cell \in GivenCells : Val(board, cell) = Val(initial, cell)
    /\ board # initial

====
